---------------------------- MODULE Spec2Model ----------------------------
(***************************************************************************)
(* Model of src/helperFunctions/yara_binary_search.py: the scan            *)
(* orchestration of YaraBinarySearchScanner.get_binary_search_result,      *)
(* the external yara invocations it issues, the parsing and normalisation  *)
(* of the raw yara output, and the temporary compiled-rule file.           *)
(*                                                                         *)
(* Byte strings and text are sequences of character codes (ASCII only, so  *)
(* bytes.decode() maps a byte string to the text with the same codes).     *)
(***************************************************************************)
EXTENDS Integers, Sequences, FiniteSets

VARIABLES
    task,            \* task[t] = [yara_rules, firmware_uid]: the argument of the call
    pc,              \* position of worker t inside get_binary_search_result
    exit,            \* the statement through which the call of worker t left
    temp_rule_file,  \* name of the NamedTemporaryFile of worker t (0: none)
    file_paths,      \* paths resolved for firmware_uid (object scope)
    outputs,         \* raw outputs of the successful yara invocations so far
    invocations,     \* log of yara invocations: target, rule file read, exit, output
    raw_result,      \* the bytes handed to _parse_raw_result
    result,          \* value returned (or exception raised) by the call
    fs,              \* the temporary directory: name -> file
    workers,         \* the workers that call get_binary_search_result
    engine           \* what the external yara binary prints in this run

vars == << task, pc, exit, temp_rule_file, file_paths, outputs, invocations,
           raw_result, result, fs, workers, engine >>

----------------------------------------------------------------------------
(* Bounds *)

MaxLines == 2        \* lines one yara invocation prints at most
NumNames == 2        \* names the temporary directory can hold

Tasks == {1, 2}
Names == 1..NumNames

----------------------------------------------------------------------------
(* Characters and literals of the source *)

Space == 32          \* ' '  in split(' ')
Newline == 10        \* '\n' in split(b'\n') and b'\n'.join
Slash == 47          \* '/'  the separator basename() cuts at

\* b'warning'
Warning == <<119, 97, 114, 110, 105, 110, 103>>

\* 'There seems to be an error in the rule file:\n'
ErrorPrefix ==
    <<84, 104, 101, 114, 101, 32, 115, 101, 101, 109, 115, 32, 116, 111, 32,
      98, 101, 32, 97, 110, 32, 101, 114, 114, 111, 114, 32, 105, 110, 32,
      116, 104, 101, 32, 114, 117, 108, 101, 32, 102, 105, 108, 101, 58, 10>>

\* self.db_path: config['data_storage']['firmware_file_storage_directory'], "/d"
DbPath == <<47, 100>>

NoUid == "None"      \* firmware_uid is None

----------------------------------------------------------------------------
(* Sequences of characters *)

Range(s) == {s[i] : i \in DOMAIN s}

Min(a, b) == IF a < b THEN a ELSE b

IsPrefix(p, s) == Len(p) <= Len(s) /\ SubSeq(s, 1, Len(p)) = p

\* sub in s, for byte strings
Contains(s, sub) ==
    \E i \in 0..(Len(s) - Len(sub)) : SubSeq(s, i + 1, i + Len(sub)) = sub

\* s.split(sep) for a one-character separator: every separator cuts
RECURSIVE Split(_, _)
Split(s, sep) ==
    IF \A i \in DOMAIN s : s[i] # sep
    THEN <<s>>
    ELSE LET i == CHOOSE k \in DOMAIN s :
                      s[k] = sep /\ \A j \in 1..(k - 1) : s[j] # sep
         IN  <<SubSeq(s, 1, i - 1)>> \o Split(SubSeq(s, i + 1, Len(s)), sep)

\* sep.join(parts)
RECURSIVE Join(_, _)
Join(parts, sep) ==
    IF parts = <<>> THEN <<>>
    ELSE IF Len(parts) = 1 THEN parts[1]
    ELSE parts[1] \o sep \o Join(Tail(parts), sep)

\* os.path.basename: what follows the last '/'
Basename(p) ==
    LET cuts == {i \in DOMAIN p : p[i] = Slash}
    IN  IF cuts = {} THEN p
        ELSE LET last == CHOOSE i \in cuts : \A j \in cuts : j <= i
             IN  SubSeq(p, last + 1, Len(p))

\* a < b for str: by code point, a proper prefix first
StrLess(a, b) ==
    \E k \in 1..(Min(Len(a), Len(b)) + 1) :
        /\ \A j \in 1..(k - 1) : a[j] = b[j]
        /\ \/ k > Len(a) /\ k <= Len(b)
           \/ k <= Len(a) /\ k <= Len(b) /\ a[k] < b[k]

\* sorted(S) for a set of str
RECURSIVE Sorted(_)
Sorted(S) ==
    IF S = {} THEN <<>>
    ELSE LET m == CHOOSE x \in S : \A y \in S \ {x} : StrLess(x, y)
         IN  <<m>> \o Sorted(S \ {m})

----------------------------------------------------------------------------
(* _parse_raw_result and _eliminate_duplicates *)

EmptyDict == [k \in {} |-> <<>>]

\* results[rule].append(match) / results[rule] = [match]
DictAppend(results, rule, match) ==
    [k \in DOMAIN results \cup {rule} |->
        IF k = rule
        THEN IF rule \in DOMAIN results THEN Append(results[rule], match)
                                        ELSE <<match>>
        ELSE results[k]]

\* the lines the loop of _parse_raw_result does not skip
Considered(line) == line # <<>> /\ ~Contains(line, Warning)

\* rule, match = line.decode().split(' ') unpacks only a list of two
Unpacks(line) == Len(Split(line, Space)) = 2

\* the loop body of _parse_raw_result over the lines left, from dict results:
\* [raised |-> TRUE] when the unpacking raises ValueError
RECURSIVE ParseLines(_, _)
ParseLines(lines, results) ==
    IF lines = <<>> THEN [raised |-> FALSE, results |-> results]
    ELSE LET line == Head(lines)
         IN  IF Considered(line)
             THEN IF Unpacks(line)
                  THEN LET parts == Split(line, Space)
                       IN  ParseLines(Tail(lines),
                               DictAppend(results, parts[1], Basename(parts[2])))
                  ELSE [raised |-> TRUE, results |-> EmptyDict]
             ELSE ParseLines(Tail(lines), results)

ParseRawResult(raw) == ParseLines(Split(raw, Newline), EmptyDict)

KeepInsertionOrder(result_dict) == result_dict
EliminateDuplicates(result_dict) ==
    [key \in DOMAIN result_dict |-> Sorted(Range(result_dict[key]))]

----------------------------------------------------------------------------
(* yara.compile, and the validator get_yara_error *)

\* rule sources, by what yara.compile(source=yara_rules.decode()) does with them:
\*   "valid"        compiles
\*   "syntax"       yara.SyntaxError
\*   "nul"          text with an embedded NUL character: ValueError
\*   "undecodable"  bytes that are not UTF-8 (b'\xff'): decode() raises
RuleSources == {"valid", "syntax", "nul", "undecodable"}

\* yara_rules.decode() succeeds
Decodes(rules) == rules # "undecodable"

\* yara.compile(source=...): "compiled" or the exception raised
YaraCompile(rules) ==
    CASE rules = "valid"  -> "compiled"
      [] rules = "syntax" -> "SyntaxError"
      [] OTHER            -> "ValueError"

\* str(e) of the yara.SyntaxError: 'syntax error'
Diagnostic == <<115, 121, 110, 116, 97, 120, 32, 101, 114, 114, 111, 114>>

\* except yara.SyntaxError
CaughtAtCompile(exception) == exception = "SyntaxError"

\* get_yara_error: "None", "error" (the exception is returned), or "raises"
\* (the decode stands outside its try)
GetYaraError(rules_file) ==
    IF ~Decodes(rules_file) THEN "raises"
    ELSE IF YaraCompile(rules_file) = "compiled" THEN "None"
    ELSE "error"

IsValidYaraRuleFile(rules_file) == GetYaraError(rules_file) = "None"

\* names of the rules a rule set defines: R, S
RuleNames == {<<82>>, <<83>>}

----------------------------------------------------------------------------
(* The stored files and the storage interface *)

\* uids of the files in the storage directory: "a", "ab", "b"
Corpus == {<<97>>, <<97, 98>>, <<98>>}

\* firmware objects: A includes b and a, B includes ab and a, U is unknown
FirmwareUids == {NoUid, "A", "B", "U"}

\* get_uids_of_all_included_files: empty for an unknown object
GetUidsOfAllIncludedFiles(fo_uid) ==
    CASE fo_uid = "A" -> {<<98>>, <<97>>}
      [] fo_uid = "B" -> {<<97, 98>>, <<97>>}
      [] OTHER        -> {}

\* FS_Organizer.generate_path_from_uid
GeneratePathFromUid(uid) == DbPath \o <<Slash>> \o uid

\* the orders in which iteration may enumerate a set
Enumerations(S) ==
    {e \in [1..Cardinality(S) -> S] : \A i, j \in DOMAIN e : i # j => e[i] # e[j]}

\* get_file_paths_of_files_included_in_fo: the lists it may return
GetFilePaths(fo_uid) ==
    {[i \in DOMAIN e |-> GeneratePathFromUid(e[i])] :
        e \in Enumerations(GetUidsOfAllIncludedFiles(fo_uid))}

----------------------------------------------------------------------------
(* The temporary directory *)

\* fs[n] = [owner |-> worker that created the file (0: no file),
\*          data  |-> worker whose compiled rules it holds (0: empty)]
Absent == [owner |-> 0, data |-> 0]

\* NamedTemporaryFile(): a name not in use (mkstemp opens with O_EXCL)
AnyNames(f) == Names
FreshNames(f) == {n \in Names : f[n] = Absent}

Create(f, n, t) == [f EXCEPT ![n] = [owner |-> t, data |-> 0]]

\* compiled_rules.save(file=temp_rule_file); temp_rule_file.flush()
Save(f, n, t) == IF f[n] = Absent THEN f ELSE [f EXCEPT ![n].data = t]

\* leaving the with block closes and deletes the file
KeepFile(f, n) == f
ExitWith(f, n) == [f EXCEPT ![n] = Absent]

----------------------------------------------------------------------------
(* The external yara binary *)

NoPath == <<>>       \* target_path=None

\* self.db_path if target_path is None else target_path
AlwaysDbPath(target_path) == DbPath
Target(target_path) == IF target_path = NoPath THEN DbPath ELSE target_path

\* yara -r scans the target if it is a file, every file below it otherwise
FilesUnder(target) ==
    {p \in {GeneratePathFromUid(u) : u \in Corpus} :
        p = target \/ IsPrefix(target \o <<Slash>>, p)}

\* "<rule> <path>"
MatchLine(rule, path) == rule \o <<Space>> \o path

\* "warning: x"
WarningLine == Warning \o <<58, 32, 120>>

\* "error scanning <path>: x"
ScanErrorLine(path) ==
    <<101, 114, 114, 111, 114, 32, 115, 99, 97, 110, 110, 105, 110, 103, 32>>
        \o path \o <<58, 32, 120>>

\* the lines an invocation on target may print (stdout and stderr together)
Printable(target) ==
    IF engine = "verbose"
    THEN {MatchLine(r, p) : r \in RuleNames, p \in FilesUnder(target)}
            \cup {WarningLine}
            \cup {ScanErrorLine(p) : p \in FilesUnder(target)}
    ELSE {MatchLine(<<82>>, p) : p \in FilesUnder(target)}
            \cup {ScanErrorLine(target)}

LineBudget == IF engine = "verbose" THEN MaxLines ELSE 1

\* every line ends with a line break
RECURSIVE Terminated(_)
Terminated(lines) ==
    IF lines = <<>> THEN <<>>
    ELSE Head(lines) \o <<Newline>> \o Terminated(Tail(lines))

\* what check_output may yield: exit status zero and the output, or
\* CalledProcessError with the output. A rule file without compiled rules
\* cannot be loaded.
YaraRun(rule_file, target) ==
    IF rule_file.data = 0
    THEN {[ok |-> FALSE, output |-> Terminated(<<ScanErrorLine(target)>>)]}
    ELSE {[ok |-> TRUE, output |-> Terminated(lines)] :
             lines \in UNION {[1..k -> Printable(target)] : k \in 0..LineBudget}}
         \cup {[ok |-> FALSE, output |-> Terminated(<<ScanErrorLine(target)>>)]}

\* raise YaraRuleError('There seems to be an error in the rule file:\n{}'
\*                     .format(e.output.decode()))
ErrorWithoutOutput(output) == [kind |-> "YaraRuleError", value |-> EmptyDict, text |-> ErrorPrefix]
YaraRuleError(output) ==
    [kind |-> "YaraRuleError", value |-> EmptyDict, text |-> ErrorPrefix \o output]

\* the path the generator of _execute_yara_search_for_single_firmware hands
\* to _execute_yara_search after done invocations
ReversedPath(paths, done) == paths[Len(paths) - done]
NextPath(paths, done) == paths[done + 1]

----------------------------------------------------------------------------
(* get_binary_search_result, one action for each blocking step *)

NoResult == [kind |-> "none", value |-> EmptyDict, text |-> <<>>]
Raised == [kind |-> "raised", value |-> EmptyDict, text |-> <<>>]
Returned(results) == [kind |-> "dict", value |-> results, text |-> <<>>]

InitWith(W, e) ==
    /\ workers = W
    /\ engine = e
    /\ task \in [Tasks -> [yara_rules : RuleSources, firmware_uid : FirmwareUids]]
    /\ \A t \in Tasks \ W : task[t] = [yara_rules |-> "valid", firmware_uid |-> NoUid]
    /\ pc = [t \in Tasks |-> "idle"]
    /\ exit = [t \in Tasks |-> "none"]
    /\ temp_rule_file = [t \in Tasks |-> 0]
    /\ file_paths = [t \in Tasks |-> <<>>]
    /\ outputs = [t \in Tasks |-> <<>>]
    /\ invocations = [t \in Tasks |-> <<>>]
    /\ raw_result = [t \in Tasks |-> <<>>]
    /\ result = [t \in Tasks |-> NoResult]
    /\ fs = [n \in Names |-> Absent]

\* one worker, yara printing up to MaxLines lines of any kind
Init == InitWith({1}, "verbose")

\* two workers at once, yara printing at most one line
InitConc == InitWith(Tasks, "terse")

\* the call leaves the with block: by return or by an exception
Leave(t, how, value) ==
    /\ pc' = [pc EXCEPT ![t] = "done"]
    /\ exit' = [exit EXCEPT ![t] = how]
    /\ result' = [result EXCEPT ![t] = value]
    /\ fs' = ExitWith(fs, temp_rule_file[t])

\* with NamedTemporaryFile() as temp_rule_file
Open(t) ==
    /\ pc[t] = "idle"
    /\ \E n \in FreshNames(fs) :
          /\ temp_rule_file' = [temp_rule_file EXCEPT ![t] = n]
          /\ fs' = Create(fs, n, t)
    /\ pc' = [pc EXCEPT ![t] = "opened"]
    /\ UNCHANGED << task, exit, file_paths, outputs, invocations, raw_result,
                    result, workers, engine >>

\* yara.compile in its try, then save and flush
Compile(t) ==
    /\ pc[t] = "opened"
    /\ LET rules == task[t].yara_rules
       IN  \/ /\ ~Decodes(rules)
              /\ Leave(t, "compile_raised", Raised)
           \/ /\ Decodes(rules)
              /\ YaraCompile(rules) # "compiled"
              /\ CaughtAtCompile(YaraCompile(rules))
              /\ Leave(t, "compile_error_returned", YaraRuleError(Diagnostic))
           \/ /\ Decodes(rules)
              /\ YaraCompile(rules) # "compiled"
              /\ ~CaughtAtCompile(YaraCompile(rules))
              /\ Leave(t, "compile_raised", Raised)
           \/ /\ Decodes(rules)
              /\ YaraCompile(rules) = "compiled"
              /\ fs' = Save(fs, temp_rule_file[t], t)
              /\ pc' = [pc EXCEPT ![t] = "saved"]
              /\ UNCHANGED << exit, result >>
    /\ UNCHANGED << task, temp_rule_file, file_paths, outputs, invocations,
                    raw_result, workers, engine >>

\* one call of _execute_yara_search: check_output('yara -r {} {}'...)
Execute(t, target_path, after) ==
    LET rule_file == fs[temp_rule_file[t]]
        target == Target(target_path)
    IN  /\ \E run \in YaraRun(rule_file, target) :
              /\ invocations' = [invocations EXCEPT ![t] =
                     Append(@, [target |-> target, owner |-> rule_file.owner,
                                rules |-> rule_file.data, ok |-> run.ok,
                                output |-> run.output])]
              /\ \/ /\ run.ok
                    /\ outputs' = [outputs EXCEPT ![t] = Append(@, run.output)]
                    /\ pc' = [pc EXCEPT ![t] = after]
                    /\ UNCHANGED << exit, result, fs >>
                 \/ /\ ~run.ok
                    /\ Leave(t, "engine_error_returned", YaraRuleError(run.output))
                    /\ UNCHANGED outputs
        /\ UNCHANGED << task, temp_rule_file, file_paths, raw_result, workers,
                        engine >>

\* firmware_uid is None: self._execute_yara_search(temp_rule_file.name)
ScanCorpus(t) ==
    /\ pc[t] = "saved"
    /\ task[t].firmware_uid = NoUid
    /\ Execute(t, NoPath, "scanned")

\* _execute_yara_search_for_single_firmware: the lookup of the paths
Resolve(t) ==
    /\ pc[t] = "saved"
    /\ task[t].firmware_uid # NoUid
    /\ \E paths \in GetFilePaths(task[t].firmware_uid) :
          file_paths' = [file_paths EXCEPT ![t] = paths]
    /\ pc' = [pc EXCEPT ![t] = "resolved"]
    /\ UNCHANGED << task, exit, temp_rule_file, outputs, invocations,
                    raw_result, result, fs, workers, engine >>

\* the lookup fails (storage not reachable, or the object unknown to it):
\* the exception passes through get_binary_search_result
ResolveFails(t) ==
    /\ pc[t] = "saved"
    /\ task[t].firmware_uid # NoUid
    /\ Leave(t, "resolve_raised", Raised)
    /\ UNCHANGED << task, temp_rule_file, file_paths, outputs, invocations,
                    raw_result, workers, engine >>

\* _execute_yara_search_for_single_firmware: the generator consumed by join,
\* one invocation for each path
ScanFile(t) ==
    /\ pc[t] = "resolved"
    /\ Len(outputs[t]) < Len(file_paths[t])
    /\ Execute(t, NextPath(file_paths[t], Len(outputs[t])), "resolved")

\* the raw result of the scan: the output, or b'\n'.join of the outputs
RawResult(t) ==
    IF task[t].firmware_uid = NoUid THEN outputs[t][1]
    ELSE Join(outputs[t], <<Newline>>)

\* _parse_raw_result, _eliminate_duplicates, return
Finish(t) ==
    /\ \/ pc[t] = "scanned"
       \/ pc[t] = "resolved" /\ Len(outputs[t]) = Len(file_paths[t])
    /\ LET raw == RawResult(t)
           parsed == ParseRawResult(raw)
       IN  /\ raw_result' = [raw_result EXCEPT ![t] = raw]
           /\ \/ /\ parsed.raised
                 /\ Leave(t, "parse_raised", Raised)
              \/ /\ ~parsed.raised
                 /\ Leave(t, "dict_returned",
                       Returned(IF parsed.results # EmptyDict
                                THEN EliminateDuplicates(parsed.results)
                                ELSE parsed.results))
    /\ UNCHANGED << task, temp_rule_file, file_paths, outputs, invocations,
                    workers, engine >>

Next ==
    \E t \in workers :
        \/ Open(t)
        \/ Compile(t)
        \/ ScanCorpus(t)
        \/ Resolve(t)
        \/ ResolveFails(t)
        \/ ScanFile(t)
        \/ Finish(t)

Spec == Init /\ [][Next]_vars

SpecConc == InitConc /\ [][Next]_vars

----------------------------------------------------------------------------
(* Properties *)

Done(t) == pc[t] = "done"

\* the (rule, identifier) pairs a returned dict holds
Pairs(dict) == UNION {{<<r, i>> : i \in Range(dict[r])} : r \in DOMAIN dict}

\* the non-blank lines of a byte string
Lines(bytes) == SelectSeq(Split(bytes, Newline), LAMBDA l : l # <<>>)

RECURSIVE Flatten(_)
Flatten(seqs) == IF seqs = <<>> THEN <<>> ELSE Head(seqs) \o Flatten(Tail(seqs))

\* a line cut at its first space only: (text before, final segment of the rest)
FirstSpacePair(line) ==
    LET i == CHOOSE k \in DOMAIN line :
                 line[k] = Space /\ \A j \in 1..(k - 1) : line[j] # Space
    IN  <<SubSeq(line, 1, i - 1), Basename(SubSeq(line, i + 1, Len(line)))>>

FirstSpacePairs(raw) ==
    {FirstSpacePair(l) :
        l \in {x \in Range(Split(raw, Newline)) :
                  Considered(x) /\ Space \in Range(x)}}

\* C1: every finished call has returned a dict or a YaraRuleError value; no
\* exception has left get_binary_search_result.
C1_NoExceptionEscapes ==
    \A t \in workers :
        Done(t) => result[t].kind \in {"dict", "YaraRuleError"}

\* C2: for every rule source on which get_yara_error reports an error, the
\* finished call has returned a YaraRuleError value and has invoked yara zero
\* times.
C2_CompileFailureReturnsError ==
    \A t \in workers :
        (Done(t) /\ GetYaraError(task[t].yara_rules) = "error")
            => /\ result[t].kind = "YaraRuleError"
               /\ invocations[t] = <<>>

\* C3: once a call has finished, by whatever exit, the temporary rule file it
\* created does not exist any more; the file exists from its creation to that
\* exit, and at each of the call's yara invocations.
C3_ScratchFileLifetime ==
    \A t \in workers :
        /\ Done(t) => \A n \in Names : fs[n].owner # t
        /\ pc[t] \in {"opened", "saved", "scanned", "resolved"}
              => fs[temp_rule_file[t]].owner = t
        /\ \A i \in DOMAIN invocations[t] : invocations[t][i].owner = t

C3_Witness ==
    \E t, u \in workers :
        /\ Done(t) /\ exit[t] = "parse_raised" /\ invocations[t] # <<>>
        /\ Done(u) /\ exit[u] = "engine_error_returned"

\* C4: in every returned dict, the list of each rule is strictly ascending
\* in the order of str (so no identifier occurs twice).
C4_ListsStrictlyAscending ==
    \A t \in workers :
        result[t].kind = "dict"
            => \A r \in DOMAIN result[t].value :
                  \A i \in 1..(Len(result[t].value[r]) - 1) :
                      StrLess(result[t].value[r][i], result[t].value[r][i + 1])

\* a dict returned for a raw result whose accumulated list had to be
\* reordered or deduplicated
C4_Witness ==
    \E t \in workers :
        /\ exit[t] = "dict_returned"
        /\ \E r \in DOMAIN result[t].value :
              /\ Len(result[t].value[r]) >= 2
              /\ ParseRawResult(raw_result[t]).results[r] # result[t].value[r]

\* C5: a dict returned for a scan of firmware object A holds only uids of
\* files included in A.
C5_ScopedToObject ==
    \A t \in workers :
        (result[t].kind = "dict" /\ task[t].firmware_uid # NoUid)
            => \A r \in DOMAIN result[t].value :
                  Range(result[t].value[r])
                      \subseteq GetUidsOfAllIncludedFiles(task[t].firmware_uid)

\* a non-empty dict for A, whose files differ from those of B
C5_Witness ==
    \E t \in workers :
        /\ task[t].firmware_uid = "A"
        /\ exit[t] = "dict_returned"
        /\ \E r \in DOMAIN result[t].value : Len(result[t].value[r]) = 2

\* C6: a call that returned a dict invoked yara exactly once on the storage
\* directory (no firmware_uid), or exactly once for each resolved path in
\* the order of the lookup; and the lines handed to the parser are the lines
\* of the invocations' outputs in that order, none merged with another.
C6_InvocationsAndJoin ==
    \A t \in workers :
        exit[t] = "dict_returned"
            => /\ [i \in DOMAIN invocations[t] |-> invocations[t][i].target]
                     = IF task[t].firmware_uid = NoUid THEN <<DbPath>>
                       ELSE file_paths[t]
               /\ Lines(raw_result[t])
                     = Flatten([i \in DOMAIN invocations[t] |->
                                   Lines(invocations[t][i].output)])

\* two invocations with output, joined
C6_Witness ==
    \E t \in workers :
        /\ exit[t] = "dict_returned"
        /\ Len(invocations[t]) = 2
        /\ \A i \in 1..2 : Lines(invocations[t][i].output) # <<>>

\* C7: a scan of a firmware object without resolvable files ends in an
\* error, never in a returned dict.
C7_UnknownObjectIsError ==
    \A t \in workers :
        (Done(t) /\ task[t].firmware_uid # NoUid
                 /\ GetUidsOfAllIncludedFiles(task[t].firmware_uid) = {})
            => result[t].kind # "dict"

\* C8: workers inside the with block hold different rule files; a saved rule
\* file holds the rules of the worker that created it until that worker
\* leaves; and every yara invocation of a worker read that worker's rules.
C8_ExclusiveArtifact ==
    \A t \in workers :
        /\ \A u \in workers \ {t} :
              (pc[t] \notin {"idle", "done"} /\ pc[u] \notin {"idle", "done"})
                  => temp_rule_file[t] # temp_rule_file[u]
        /\ pc[t] \in {"saved", "scanned", "resolved"}
              => fs[temp_rule_file[t]] = [owner |-> t, data |-> t]
        /\ \A i \in DOMAIN invocations[t] : invocations[t][i].rules = t

\* both workers scanning at once, each having invoked yara
C8_Witness ==
    \A t \in Tasks :
        /\ t \in workers
        /\ pc[t] = "resolved"
        /\ invocations[t] # <<>>

\* C9: whenever the parser ran, the call returned a dict that holds
\* identifier i under rule r exactly when a non-blank, non-warning line, cut
\* at its first space, yields (r, i).
C9_FirstSpaceSplit ==
    \A t \in workers :
        exit[t] \in {"parse_raised", "dict_returned"}
            => /\ result[t].kind = "dict"
               /\ Pairs(result[t].value) = FirstSpacePairs(raw_result[t])

\* C10: a yara invocation that exited non-zero is the last invocation of its
\* call, and the call has returned a YaraRuleError that carries the output of
\* that invocation, not a dict.
C10_EngineErrorEndsScan ==
    \A t \in workers :
        \A i \in DOMAIN invocations[t] :
            ~invocations[t][i].ok
                => /\ i = Len(invocations[t])
                   /\ Done(t)
                   /\ result[t] = [kind |-> "YaraRuleError", value |-> EmptyDict,
                                   text |-> ErrorPrefix \o invocations[t][i].output]

\* the second of two invocations fails after the first printed a match
C10_Witness ==
    \E t \in workers :
        /\ exit[t] = "engine_error_returned"
        /\ Len(file_paths[t]) = 2
        /\ Len(invocations[t]) = 2
        /\ ParseRawResult(invocations[t][1].output).results # EmptyDict

=============================================================================
